---- MODULE Spec2Model ----
(***************************************************************************)
(* State-machine model of the synchronization core of reth:                *)
(*   - ChainOrchestrator      crates/engine/tree/src/chain.rs               *)
(*   - Persistence actor      crates/engine/tree/src/persistence.rs         *)
(*   - StateFetcher           crates/net/network/src/fetch.rs               *)
(*   - TransactionFetcher     crates/net/network/src/transactions/fetcher.rs*)
(* Each component has its own specification (SpecChain, SpecPersist,       *)
(* SpecFetch, SpecTx); the variables of the other components stay at their *)
(* initial value.                                                          *)
(***************************************************************************)
EXTENDS Integers, Sequences, FiniteSets, TLC

(***************************************************************************)
(* Bounds of the model                                                     *)
(***************************************************************************)
\* number of RequestSync actions the handler issues in one behaviour
MaxSyncRequests == 3
\* pipeline targets the handler may ask for
NumTargets == 2

\* number of PersistenceActions submitted in one behaviour
MaxActions == 3
\* callers holding a cloned PersistenceHandle
NumCallers == 2
\* block numbers
MaxBlock == 2

\* download requests created in one behaviour
MaxRequests == 3
\* peer ids known to the header/body scheduler
NumFetchPeers == 2

\* peers of the transaction fetcher
NumTxPeers == 2
\* transaction hashes
NumTxHashes == 2
\* longest announcement
MaxAnnounce == 2
\* capacity of buffered_hashes in the model (100 * 256 in the source)
MAX_CAPACITY_BUFFERED_HASHES == 1
\* soft limit of hashes per request in the model (256 in the source)
GET_POOLED_TRANSACTION_SOFT_LIMIT_NUM_HASHES == 2
\* global limit of concurrent requests in the model (10000 in the source)
MAX_CONCURRENT_TX_REQUESTS == 2
\* byte budget of a PooledTransactions response in the model
MAX_FULL_TRANSACTIONS_PACKET_SIZE == 2

\* longest hash list passed to a single call of a packing function
MaxPackHashes == 4

MAX_CONCURRENT_TX_REQUESTS_PER_PEER == 1

MARGINAL_FALLBACK_PEERS_PER_TX == 1

MAX_REQUEST_RETRIES_PER_TX_HASH == 2

MAX_ALTERNATIVE_PEERS_PER_TX_more ==
    MAX_REQUEST_RETRIES_PER_TX_HASH + MARGINAL_FALLBACK_PEERS_PER_TX + 1

MAX_ALTERNATIVE_PEERS_PER_TX == MAX_REQUEST_RETRIES_PER_TX_HASH + MARGINAL_FALLBACK_PEERS_PER_TX

None == 0

(***************************************************************************)
(* ChainOrchestrator                                                       *)
(***************************************************************************)
VARIABLES
    cpc,        \* position inside poll_next_event: "out", "pipeline", "handler", "ret"
    cret,       \* value the current poll is about to return
    pstate,     \* pipeline: "Idle" or "Running"
    ptarget,    \* pipeline: pending target set by on_action(Start(target)), None if none
    lastPipe,   \* result of the most recent pipeline.poll
    nreq,       \* number of pipeline.on_action(Start) calls so far
    pStarted,   \* number of Started events the pipeline has produced
    hStarted,   \* number of handler.on_event(PipelineStarted) calls
    hFinished,  \* number of handler.on_event(PipelineFinished) calls
    eStarted,   \* number of ChainEvent::PipelineStarted returned to the caller
    eFinished,  \* number of ChainEvent::PipelineFinished returned to the caller
    eFatal,     \* number of ChainEvent::FatalError returned to the caller
    runOpen,    \* a PipelineStarted notification is not yet followed by
                \* a PipelineFinished notification or a FatalError
    htarget     \* target of the last HandlerEvent::Pipeline the handler returned

chainVars == <<cpc, cret, pstate, ptarget, lastPipe, nreq, pStarted, hStarted,
               hFinished, eStarted, eFinished, eFatal, runOpen, htarget>>

(***************************************************************************)
(* Persistence actor                                                       *)
(***************************************************************************)
VARIABLES
    incoming,   \* the mpsc channel of PersistenceActions, oldest first
    apc,        \* actor position: "recv", "op", "reply", "panicked", "ended"
    cur,        \* the action the actor took from the channel
    curOut,     \* the value the actor is about to send on cur's reply channel
    store,      \* the block numbers held by the durable store
    cst,        \* per caller: "idle", "waiting", "done", "panicked", "abandoned", "dropped"
    creq,       \* per caller: id of its last request
    cval,       \* per caller: the reply it received
    submitted,  \* ids of all actions sent on the channel, in send order
    applied,    \* ids of the actions whose store operation has run, in run order
    maxQueued   \* largest number of actions that waited in the channel together

persistVars == <<incoming, apc, cur, curOut, store, cst, creq, cval, submitted,
                 applied, maxQueued>>

(***************************************************************************)
(* StateFetcher                                                            *)
(***************************************************************************)
VARIABLES
    peers,      \* peer id -> "Absent" or its PeerState
    inflightH,  \* inflight_headers_requests: set of [peer, id]
    inflightB,  \* inflight_bodies_requests: set of [peer, id]
    queued,     \* queued_requests: request ids, front first
    chan,       \* download_requests_rx: request ids sent by the front-end, not yet polled
    rkind,      \* request id -> "None", "Headers" or "Bodies"
    reply,      \* request id -> what its reply channel holds
    crashed,    \* the fetcher panicked and was dropped
    fout        \* the FetchAction / BlockResponseOutcome of the last operation

fetchVars == <<peers, inflightH, inflightB, queued, chan, rkind, reply, crashed, fout>>

(***************************************************************************)
(* TransactionFetcher                                                      *)
(***************************************************************************)
VARIABLES
    active_peers,       \* peer -> in-flight count, 0 if the map has no entry
    inflight_requests,  \* peer -> the requested hash lists of its pending futures
    buffered_hashes,    \* LruCache<TxHash>, least recently used first
    unknown_hashes,     \* hash -> [t, retries, peers]; t = FALSE if the map has no entry
    eth68_meta,         \* hash -> announced size, 0 if the map has no entry
    work,               \* the hash list the caller of the fetcher is working on
    ejected,            \* untracked hashes that left tracking by retry exhaustion or eviction
    last,               \* what the last operation evicted, dropped and re-created
    gave_up             \* the caller dropped a list the fetcher had returned to it

\* single calls of the fetcher's functions on drawn fetcher values
VARIABLES
    pst,        \* the fetcher value the function is called on
    phs,        \* the hash list passed to the function
    pres        \* the call made and what it returned

callVars == <<pst, phs, pres>>

txVars == <<active_peers, inflight_requests, buffered_hashes, unknown_hashes, eth68_meta,
            work, ejected, last, gave_up>>

notChain == <<persistVars, fetchVars, txVars, callVars>>
notPersist == <<chainVars, fetchVars, txVars, callVars>>
notFetch == <<chainVars, persistVars, txVars, callVars>>
notTx == <<chainVars, persistVars, fetchVars, callVars>>
notCall == <<chainVars, persistVars, fetchVars, txVars>>

Targets == 1..NumTargets

ChainEvent == {"PipelineStarted", "PipelineFinished", "FatalError"}

OrchestratorState == {"Idle", "PipelineActive"}

InitChain ==
    /\ cpc = "out"
    /\ cret = "Pending"
    /\ pstate = "Idle"
    /\ ptarget = None
    /\ lastPipe = "None"
    /\ nreq = 0
    /\ pStarted = 0
    /\ hStarted = 0
    /\ hFinished = 0
    /\ eStarted = 0
    /\ eFinished = 0
    /\ eFatal = 0
    /\ runOpen = FALSE
    /\ htarget = None

\* PipelineHandler::on_action(PipelineAction::Start(target))
PipelineOnAction(t) == ptarget' = t

\* the pipeline has a pending target and no run in progress: poll starts a run
PipelineCanStart == pstate = "Idle" /\ ptarget # None

\* a pipeline run is in progress
PipelineRunning == pstate = "Running"

\* the pipeline has neither a run nor a pending target
PipelineQuiet == pstate = "Idle" /\ ptarget = None

\* the caller of the stream polls the orchestrator
PollNextEvent ==
    /\ UNCHANGED notChain
    /\ cpc = "out"
    /\ cpc' = "pipeline"
    /\ UNCHANGED <<htarget, cret, pstate, ptarget, lastPipe, nreq, pStarted, hStarted,
                   hFinished, eStarted, eFinished, eFatal, runOpen>>

\* variant: the Started branch returns without calling handler.on_event
NotifyStarted_skip == UNCHANGED <<hStarted, runOpen>>

\* handler.on_event(FromOrchestrator::PipelineStarted)
NotifyStarted ==
    /\ hStarted' = hStarted + 1
    /\ runOpen' = TRUE

\* pipeline.poll returns Ready(Started(target))
PipelineStarted ==
    /\ UNCHANGED notChain
    /\ cpc = "pipeline"
    /\ PipelineCanStart
    /\ pstate' = "Running"
    /\ ptarget' = None
    /\ pStarted' = pStarted + 1
    /\ lastPipe' = "Started"
    /\ NotifyStarted
    /\ cret' = "PipelineStarted"
    /\ cpc' = "ret"
    /\ UNCHANGED <<htarget, nreq, hFinished, eStarted, eFinished, eFatal>>

\* pipeline.poll returns Ready(Finished(Ok(_)))
PipelineFinishedOk ==
    /\ UNCHANGED notChain
    /\ cpc = "pipeline"
    /\ PipelineRunning
    /\ pstate' = "Idle"
    /\ lastPipe' = "FinishedOk"
    /\ hFinished' = hFinished + 1
    /\ runOpen' = FALSE
    /\ cret' = "PipelineFinished"
    /\ cpc' = "ret"
    /\ UNCHANGED <<htarget, ptarget, nreq, pStarted, hStarted, eStarted, eFinished, eFatal>>

\* pipeline.poll returns Ready(Finished(Err(_)))
PipelineFinishedErr ==
    /\ UNCHANGED notChain
    /\ cpc = "pipeline"
    /\ PipelineRunning
    /\ pstate' = "Idle"
    /\ lastPipe' = "FinishedErr"
    /\ cret' = "FatalError"
    /\ cpc' = "ret"
    /\ UNCHANGED <<htarget, ptarget, nreq, pStarted, hStarted, hFinished, eStarted,
                   eFinished, eFatal, runOpen>>

\* pipeline.poll returns Ready(Idle)
PipelineIdle ==
    /\ UNCHANGED notChain
    /\ cpc = "pipeline"
    /\ PipelineQuiet
    /\ lastPipe' = "Idle"
    /\ cpc' = "handler"
    /\ UNCHANGED <<htarget, cret, pstate, ptarget, nreq, pStarted, hStarted, hFinished,
                   eStarted, eFinished, eFatal, runOpen>>

\* pipeline.poll returns Pending
PipelinePending ==
    /\ UNCHANGED notChain
    /\ cpc = "pipeline"
    /\ PipelineRunning \/ PipelineQuiet
    /\ lastPipe' = "Pending"
    /\ cpc' = "handler"
    /\ UNCHANGED <<htarget, cret, pstate, ptarget, nreq, pStarted, hStarted, hFinished,
                   eStarted, eFinished, eFatal, runOpen>>

\* variant: the inner loop polls the handler again instead of `continue 'outer`
HandlerRequestSync_inner(t) ==
    /\ UNCHANGED notChain
    /\ cpc = "handler"
    /\ nreq < MaxSyncRequests
    /\ htarget' = t
    /\ PipelineOnAction(t)
    /\ nreq' = nreq + 1
    /\ cpc' = "handler"
    /\ UNCHANGED <<cret, pstate, lastPipe, pStarted, hStarted, hFinished,
                   eStarted, eFinished, eFatal, runOpen>>

\* variant: the handler is told PipelineStarted as soon as it requests the run
HandlerRequestSync_eager(t) ==
    /\ UNCHANGED notChain
    /\ cpc = "handler"
    /\ nreq < MaxSyncRequests
    /\ htarget' = t
    /\ PipelineOnAction(t)
    /\ nreq' = nreq + 1
    /\ NotifyStarted
    /\ cpc' = "pipeline"
    /\ UNCHANGED <<cret, pstate, lastPipe, pStarted, hFinished,
                   eStarted, eFinished, eFatal>>

\* variant: the pipeline is started with another target than the requested one
HandlerRequestSync_other(t) ==
    /\ UNCHANGED notChain
    /\ cpc = "handler"
    /\ nreq < MaxSyncRequests
    /\ htarget' = t
    /\ PipelineOnAction(NumTargets + 1 - t)
    /\ nreq' = nreq + 1
    /\ cpc' = "pipeline"
    /\ UNCHANGED <<cret, pstate, lastPipe, pStarted, hStarted, hFinished,
                   eStarted, eFinished, eFatal, runOpen>>

\* handler.poll returns Ready(HandlerEvent::Pipeline(target))
HandlerRequestSync(t) ==
    /\ UNCHANGED notChain
    /\ cpc = "handler"
    /\ nreq < MaxSyncRequests
    /\ htarget' = t
    /\ PipelineOnAction(t)
    /\ nreq' = nreq + 1
    /\ cpc' = "pipeline"
    /\ UNCHANGED <<cret, pstate, lastPipe, pStarted, hStarted, hFinished,
                   eStarted, eFinished, eFatal, runOpen>>

\* handler.poll returns Pending
HandlerPending ==
    /\ UNCHANGED notChain
    /\ cpc = "handler"
    /\ cret' = "Pending"
    /\ cpc' = "ret"
    /\ UNCHANGED <<htarget, pstate, ptarget, lastPipe, nreq, pStarted, hStarted, hFinished,
                   eStarted, eFinished, eFatal, runOpen>>

\* poll_next_event returns cret to the caller
PollReturn ==
    /\ UNCHANGED notChain
    /\ cpc = "ret"
    /\ cpc' = "out"
    /\ eStarted' = IF cret = "PipelineStarted" THEN eStarted + 1 ELSE eStarted
    /\ eFinished' = IF cret = "PipelineFinished" THEN eFinished + 1 ELSE eFinished
    /\ eFatal' = IF cret = "FatalError" THEN eFatal + 1 ELSE eFatal
    /\ runOpen' = IF cret = "FatalError" THEN FALSE ELSE runOpen
    /\ cret' = "Pending"
    /\ UNCHANGED <<htarget, pstate, ptarget, lastPipe, nreq, pStarted, hStarted, hFinished>>

\* handler.poll returns Ready(HandlerEvent::Pipeline(target)) again while the
\* pipeline is running and holds a target it has not started yet: on_action
\* replaces that target (not counted in nreq, the number of runs it can cause
\* stays the same)
HandlerRequestSyncAgain(t) ==
    /\ UNCHANGED notChain
    /\ cpc = "handler"
    /\ PipelineRunning
    /\ ptarget # None
    /\ htarget' = t
    /\ PipelineOnAction(t)
    /\ cpc' = "pipeline"
    /\ UNCHANGED <<cret, pstate, lastPipe, nreq, pStarted, hStarted, hFinished,
                   eStarted, eFinished, eFatal, runOpen>>

NextChain ==
    \/ PollNextEvent
    \/ PipelineStarted
    \/ PipelineFinishedOk
    \/ PipelineFinishedErr
    \/ PipelineIdle
    \/ PipelinePending
    \/ \E t \in Targets : HandlerRequestSync(t)
    \/ HandlerPending
    \/ PollReturn

\* the steps of poll_next_event after it was entered: the body runs on
\* until it returns
PollStep ==
    \/ PipelineStarted
    \/ PipelineFinishedOk
    \/ PipelineFinishedErr
    \/ PipelineIdle
    \/ PipelinePending
    \/ \E t \in Targets : HandlerRequestSync(t)
    \/ \E t \in Targets : HandlerRequestSyncAgain(t)
    \/ HandlerPending
    \/ PollReturn

\* the orchestrator with a handler that may repeat its request
NextChainLive ==
    \/ PollNextEvent
    \/ PollStep

(***************************************************************************)
(* Persistence actor and PersistenceHandle                                 *)
(***************************************************************************)
Callers == 1..NumCallers

Blocks == 1..MaxBlock

\* the block lists a caller may pass to save_blocks
\* ("The blocks are assumed to be ordered by block number")
BlockLists ==
    {<<>>} \cup {<<b>> : b \in Blocks} \cup {bs \in {<<a, b>> : a \in Blocks, b \in Blocks} : bs[1] < bs[2]}

NoAction == [kind |-> "none"]

NoValue == [t |-> "none"]

\* ExecutedBlock::block().hash()
BlockHash(b) == [t |-> "hash", of |-> b]

\* PersistenceAction::SaveFinalizedBlocks((blocks, sender))
SaveFinalizedBlocks(id, c, blocks) ==
    [kind |-> "Save", id |-> id, from |-> c, blocks |-> blocks, num |-> None]

\* PersistenceAction::RemoveBlocksAbove((block_number, sender))
RemoveBlocksAbove(id, c, n) ==
    [kind |-> "Remove", id |-> id, from |-> c, blocks |-> <<>>, num |-> n]

InitPersist ==
    /\ incoming = <<>>
    /\ apc = "recv"
    /\ cur = NoAction
    /\ curOut = NoValue
    /\ store = {}
    /\ cst = [c \in Callers |-> "idle"]
    /\ creq = [c \in Callers |-> None]
    /\ cval = [c \in Callers |-> NoValue]
    /\ submitted = <<>>
    /\ applied = <<>>
    /\ maxQueued = 0

\* the Receiver of the actor is alive: the actor has neither panicked nor returned
ReceiverAlive == apc \notin {"panicked", "ended"}

Max(a, b) == IF a >= b THEN a ELSE b

\* the elements of a sequence, as a set
Range(q) == {q[i] : i \in 1..Len(q)}

\* the block numbers of a set in ascending order
RECURSIVE Ascending(_)
Ascending(bs) ==
    IF bs = {} THEN <<>>
    ELSE LET m == CHOOSE x \in bs : \A y \in bs : x <= y
         IN <<m>> \o Ascending(bs \ {m})

\* Sender::send of the handle: succeeds while the Receiver is alive; otherwise
\* `.expect("should be able to send")` panics the caller
HandleSend(c, act) ==
    /\ cst[c] = "idle"
    /\ Len(submitted) < MaxActions
    /\ IF ReceiverAlive
       THEN /\ incoming' = Append(incoming, act)
            /\ submitted' = Append(submitted, act.id)
            /\ maxQueued' = Max(maxQueued, Len(incoming) + 1)
            /\ cst' = [cst EXCEPT ![c] = "waiting"]
            /\ creq' = [creq EXCEPT ![c] = act.id]
       ELSE /\ cst' = [cst EXCEPT ![c] = "panicked"]
            /\ UNCHANGED <<incoming, submitted, maxQueued, creq>>
    /\ UNCHANGED <<apc, cur, curOut, store, cval, applied>>
    /\ UNCHANGED notPersist

\* PersistenceHandle::save_blocks, up to the await
SaveBlocks(c, blocks) ==
    HandleSend(c, SaveFinalizedBlocks(Len(submitted) + 1, c, blocks))

\* PersistenceHandle::remove_blocks_above, up to the await
HandleRemoveBlocksAbove(c, n) ==
    HandleSend(c, RemoveBlocksAbove(Len(submitted) + 1, c, n))

\* variant: the actor takes the newest action of the channel
RecvAction_newest == incoming[Len(incoming)]

\* self.incoming.recv(): the oldest action of the channel
RecvAction == Head(incoming)

\* the channel without the action at position i
RemoveAt(q, i) == SubSeq(q, 1, i - 1) \o SubSeq(q, i + 1, Len(q))

\* Persistence::run: `while let Ok(action) = self.incoming.recv()`
ActorRecv ==
    /\ apc = "recv"
    /\ incoming # <<>>
    /\ cur' = RecvAction
    /\ incoming' = RemoveAt(incoming, CHOOSE i \in 1..Len(incoming) : incoming[i] = RecvAction)
    /\ apc' = "op"
    /\ UNCHANGED <<curOut, store, cst, creq, cval, submitted, applied, maxQueued>>
    /\ UNCHANGED notPersist

\* Persistence::run: recv returns Err once every handle is dropped and the
\* channel is empty; the loop ends
ActorEnd ==
    /\ apc = "recv"
    /\ incoming = <<>>
    /\ \A c \in Callers : cst[c] \in {"dropped", "panicked"}
    /\ apc' = "ended"
    /\ UNCHANGED <<incoming, cur, curOut, store, cst, creq, cval, submitted, applied, maxQueued>>
    /\ UNCHANGED notPersist

\* the durable store's write of a block list (ProviderFactory, provider_rw)
StoreWrite(blocks) == store \cup Range(blocks)

\* the durable store after removing the blocks above n
StoreRemoveAbove(n) == {b \in store : b <= n}

\* Persistence::run, RemoveBlocksAbove arm: the store operation
ActorRemove ==
    /\ apc = "op"
    /\ cur.kind = "Remove"
    /\ curOut' = [t |-> "blocks", bs |-> Ascending({b \in store : b > cur.num})]
    /\ store' = StoreRemoveAbove(cur.num)
    /\ applied' = Append(applied, cur.id)
    /\ apc' = "reply"
    /\ UNCHANGED <<incoming, cur, cst, creq, cval, submitted, maxQueued>>
    /\ UNCHANGED notPersist

\* Persistence::run, SaveFinalizedBlocks arm with an empty list: todo!() panics
ActorSaveEmpty ==
    /\ apc = "op"
    /\ cur.kind = "Save"
    /\ cur.blocks = <<>>
    /\ apc' = "panicked"
    /\ incoming' = <<>>
    /\ UNCHANGED <<cur, curOut, store, cst, creq, cval, submitted, applied, maxQueued>>
    /\ UNCHANGED notPersist

\* variant: the hash of the first block of the list
LastBlockHash_first(blocks) == BlockHash(blocks[1])

\* Persistence::run: blocks.last().unwrap().block().hash()
LastBlockHash(blocks) == BlockHash(blocks[Len(blocks)])

\* Persistence::run, SaveFinalizedBlocks arm: write returned Ok
ActorSave ==
    /\ apc = "op"
    /\ cur.kind = "Save"
    /\ cur.blocks # <<>>
    /\ curOut' = LastBlockHash(cur.blocks)
    /\ store' = StoreWrite(cur.blocks)
    /\ applied' = Append(applied, cur.id)
    /\ apc' = "reply"
    /\ UNCHANGED <<incoming, cur, cst, creq, cval, submitted, maxQueued>>
    /\ UNCHANGED notPersist

\* Persistence::run, SaveFinalizedBlocks arm: write returned Err, unwrap panics
ActorSaveErr ==
    /\ apc = "op"
    /\ cur.kind = "Save"
    /\ cur.blocks # <<>>
    /\ apc' = "panicked"
    /\ incoming' = <<>>
    /\ UNCHANGED <<cur, curOut, store, cst, creq, cval, submitted, applied, maxQueued>>
    /\ UNCHANGED notPersist

\* Persistence::run: sender.send(output).unwrap() with the receiver alive
ActorReply ==
    /\ apc = "reply"
    /\ cst[cur.from] = "waiting"
    /\ creq[cur.from] = cur.id
    /\ cst' = [cst EXCEPT ![cur.from] = "done"]
    /\ cval' = [cval EXCEPT ![cur.from] = curOut]
    /\ apc' = "recv"
    /\ cur' = NoAction
    /\ curOut' = NoValue
    /\ UNCHANGED <<incoming, store, creq, submitted, applied, maxQueued>>
    /\ UNCHANGED notPersist

\* variant: a failed send of the reply is ignored and the loop goes on
ActorReplyDropped_ignore ==
    /\ apc = "reply"
    /\ ~(cst[cur.from] = "waiting" /\ creq[cur.from] = cur.id)
    /\ apc' = "recv"
    /\ cur' = NoAction
    /\ curOut' = NoValue
    /\ UNCHANGED <<incoming, store, cst, creq, cval, submitted, applied, maxQueued>>
    /\ UNCHANGED notPersist

\* Persistence::run: sender.send(output).unwrap() after the caller dropped the
\* receiver: send returns Err and unwrap panics
ActorReplyDropped ==
    /\ apc = "reply"
    /\ ~(cst[cur.from] = "waiting" /\ creq[cur.from] = cur.id)
    /\ apc' = "panicked"
    /\ incoming' = <<>>
    /\ UNCHANGED <<cur, curOut, store, cst, creq, cval, submitted, applied, maxQueued>>
    /\ UNCHANGED notPersist

\* rx.await.expect("todo: err handling"): the reply sender was dropped with
\* the actor, the await yields Err and expect panics the caller
AwaitClosed(c) ==
    /\ cst[c] = "waiting"
    /\ apc = "panicked"
    /\ cst' = [cst EXCEPT ![c] = "panicked"]
    /\ UNCHANGED <<incoming, apc, cur, curOut, store, creq, cval, submitted, applied, maxQueued>>
    /\ UNCHANGED notPersist

\* the caller drops the future of save_blocks / remove_blocks_above before
\* the reply arrives
Abandon(c) ==
    /\ cst[c] = "waiting"
    /\ cst' = [cst EXCEPT ![c] = "abandoned"]
    /\ UNCHANGED <<incoming, apc, cur, curOut, store, creq, cval, submitted, applied, maxQueued>>
    /\ UNCHANGED notPersist

\* the caller has consumed its reply (or given up) and can call again
CallAgain(c) ==
    /\ cst[c] \in {"done", "abandoned"}
    /\ cst' = [cst EXCEPT ![c] = "idle"]
    /\ creq' = [creq EXCEPT ![c] = None]
    /\ cval' = [cval EXCEPT ![c] = NoValue]
    /\ UNCHANGED <<incoming, apc, cur, curOut, store, submitted, applied, maxQueued>>
    /\ UNCHANGED notPersist

\* the caller drops its PersistenceHandle
DropHandle(c) ==
    /\ cst[c] = "idle"
    /\ cst' = [cst EXCEPT ![c] = "dropped"]
    /\ UNCHANGED <<incoming, apc, cur, curOut, store, creq, cval, submitted, applied, maxQueued>>
    /\ UNCHANGED notPersist

NextPersist ==
    \/ \E c \in Callers, blocks \in BlockLists : SaveBlocks(c, blocks)
    \/ \E c \in Callers, n \in 0..MaxBlock : HandleRemoveBlocksAbove(c, n)
    \/ ActorRecv
    \/ ActorEnd
    \/ ActorRemove
    \/ ActorSaveEmpty
    \/ ActorSave
    \/ ActorSaveErr
    \/ ActorReply
    \/ ActorReplyDropped
    \/ \E c \in Callers : AwaitClosed(c)
    \/ \E c \in Callers : Abandon(c)
    \/ \E c \in Callers : CallAgain(c)
    \/ \E c \in Callers : DropHandle(c)

(***************************************************************************)
(* StateFetcher and HeadersDownloader                                      *)
(***************************************************************************)
FetchPeers == 1..NumFetchPeers

RequestIds == 1..MaxRequests

PeerState == {"Idle", "GetBlockHeaders", "GetBlockBodies", "Closing"}

NoOutcome == [t |-> "none"]

\* FetchAction::BlockRequest / BlockResponseOutcome::Request
BlockRequest(p, id, was) == [t |-> "BlockRequest", peer |-> p, id |-> id, was |-> was]

InitFetch ==
    /\ peers = [p \in FetchPeers |-> "Absent"]
    /\ inflightH = {}
    /\ inflightB = {}
    /\ queued = <<>>
    /\ chan = <<>>
    /\ rkind = [i \in RequestIds |-> "None"]
    /\ reply = [i \in RequestIds |-> "NotSent"]
    /\ crashed = FALSE
    /\ fout = NoOutcome

\* the fetcher as one value: the fields an operation reads and writes
FetcherState ==
    [peers |-> peers, H |-> inflightH, B |-> inflightB, queued |-> queued,
     chan |-> chan, reply |-> reply, crashed |-> crashed, out |-> NoOutcome]

\* the fields of a fetcher value become the next state
SetFetcher(st) ==
    /\ peers' = st.peers
    /\ inflightH' = st.H
    /\ inflightB' = st.B
    /\ queued' = st.queued
    /\ chan' = st.chan
    /\ reply' = st.reply
    /\ crashed' = st.crashed
    /\ fout' = st.out

\* the ids a map holds for a peer
EntriesOf(m, p) == {e.id : e \in {x \in m : x.peer = p}}

\* a oneshot Sender dropped without a value: the receiver sees a closed channel
DropSenders(rep, ids) ==
    [i \in RequestIds |-> IF i \in ids /\ rep[i] = "Pending" THEN "ChannelClosed" ELSE rep[i]]

\* oneshot Sender::send(res)
SendReply(rep, ids, res) ==
    [i \in RequestIds |-> IF i \in ids /\ rep[i] = "Pending" THEN res ELSE rep[i]]

\* variant: the entry is added next to the one the peer already has
MapInsert_keep(m, p, id) == m \cup {[peer |-> p, id |-> id]}

\* HashMap::insert(peer_id, inflight): replaces the peer's entry
MapInsert(m, p, id) == {e \in m : e.peer # p} \cup {[peer |-> p, id |-> id]}

\* HashMap::remove(peer_id)
MapRemove(m, p) == {e \in m : e.peer # p}

\* a panic unwinds through the owner of the fetcher: the fetcher and
\* every reply sender it holds are dropped
Panicked(st) ==
    [peers |-> [p \in FetchPeers |-> "Absent"], H |-> {}, B |-> {}, queued |-> <<>>,
     chan |-> <<>>, reply |-> DropSenders(st.reply, RequestIds), crashed |-> TRUE,
     out |-> NoOutcome]

\* DownloadRequest::peer_state
PeerStateOf(kind) == IF kind = "Headers" THEN "GetBlockHeaders" ELSE "GetBlockBodies"

\* StateFetcher::prepare_block_request(peer_id, req)
PrepareBlockRequest(st, p, id) ==
    LET st1 == [st EXCEPT !.peers[p] =
                   IF st.peers[p] # "Absent" THEN PeerStateOf(rkind[id]) ELSE "Absent"]
    IN IF rkind[id] = "Headers"
       THEN \* inflight_headers_requests.insert, then unimplemented!()
            Panicked([st1 EXCEPT !.H = MapInsert(st1.H, p, id)])
       ELSE [st1 EXCEPT
               !.B = MapInsert(st1.B, p, id),
               !.reply = DropSenders(st1.reply, EntriesOf(st1.B, p) \ {id}),
               !.out = BlockRequest(p, id, st.peers[p])]

\* PeerState::is_idle
IsIdle(st, p) == st.peers[p] = "Idle"

\* StateFetcher::new_connected_peer
NewConnectedPeer(p) ==
    /\ ~crashed
    /\ peers' = [peers EXCEPT ![p] = "Idle"]
    /\ fout' = NoOutcome
    /\ UNCHANGED <<inflightH, inflightB, queued, chan, rkind, reply, crashed>>
    /\ UNCHANGED notFetch

\* variant: the peer's bodies request is left in flight
OnSessionClosed_headers(p) ==
    /\ ~crashed
    /\ peers' = [peers EXCEPT ![p] = "Absent"]
    /\ inflightH' = MapRemove(inflightH, p)
    /\ reply' = SendReply(reply, EntriesOf(inflightH, p), "ConnectionDropped")
    /\ fout' = NoOutcome
    /\ UNCHANGED <<inflightB, queued, chan, rkind, crashed>>
    /\ UNCHANGED notFetch

\* StateFetcher::on_session_closed
OnSessionClosed(p) ==
    /\ ~crashed
    /\ peers' = [peers EXCEPT ![p] = "Absent"]
    /\ inflightH' = MapRemove(inflightH, p)
    /\ inflightB' = MapRemove(inflightB, p)
    /\ reply' = SendReply(reply, EntriesOf(inflightH, p) \cup EntriesOf(inflightB, p),
                          "ConnectionDropped")
    /\ fout' = NoOutcome
    /\ UNCHANGED <<queued, chan, rkind, crashed>>
    /\ UNCHANGED notFetch

\* StateFetcher::on_pending_disconnect
OnPendingDisconnect(p) ==
    /\ ~crashed
    /\ peers' = [peers EXCEPT ![p] = IF peers[p] # "Absent" THEN "Closing" ELSE "Absent"]
    /\ fout' = NoOutcome
    /\ UNCHANGED <<inflightH, inflightB, queued, chan, rkind, reply, crashed>>
    /\ UNCHANGED notFetch

\* the next unused request id
FreshId == CHOOSE i \in RequestIds : rkind[i] = "None" /\ \A j \in 1..(i - 1) : rkind[j] # "None"

\* HeadersDownloader::get_block_headers, up to the await
GetBlockHeaders ==
    /\ ~crashed
    /\ \E i \in RequestIds : rkind[i] = "None"
    /\ rkind' = [rkind EXCEPT ![FreshId] = "Headers"]
    /\ reply' = [reply EXCEPT ![FreshId] = "Pending"]
    /\ chan' = Append(chan, FreshId)
    /\ fout' = NoOutcome
    /\ UNCHANGED <<peers, inflightH, inflightB, queued, crashed>>
    /\ UNCHANGED notFetch

\* a download request is appended to the FIFO of pending requests
Enqueue(kind) ==
    /\ ~crashed
    /\ \E i \in RequestIds : rkind[i] = "None"
    /\ rkind' = [rkind EXCEPT ![FreshId] = kind]
    /\ reply' = [reply EXCEPT ![FreshId] = "Pending"]
    /\ queued' = Append(queued, FreshId)
    /\ fout' = NoOutcome
    /\ UNCHANGED <<peers, inflightH, inflightB, chan, crashed>>
    /\ UNCHANGED notFetch

\* StateFetcher::next_peer: some idle peer (iteration order of the HashMap)
NextPeer(p) == IsIdle(FetcherState, p)

\* StateFetcher::poll, poll_action returns an action: the front request
\* goes to an idle peer
PollAction(p) ==
    /\ ~crashed
    /\ queued # <<>>
    /\ NextPeer(p)
    /\ SetFetcher(PrepareBlockRequest([FetcherState EXCEPT !.queued = Tail(queued)],
                                      p, Head(queued)))
    /\ UNCHANGED rkind
    /\ UNCHANGED notFetch

\* StateFetcher::on_download_request: the request is matched and dropped
OnDownloadRequest(st, id) == [st EXCEPT !.reply = DropSenders(st.reply, {id})]

RECURSIVE DrainRequests(_, _)
DrainRequests(st, ids) ==
    IF ids = <<>> THEN st ELSE DrainRequests(OnDownloadRequest(st, Head(ids)), Tail(ids))

\* StateFetcher::poll, poll_action returns None: the incoming requests are
\* drained through on_download_request and poll returns Pending
PollPending ==
    /\ ~crashed
    /\ queued = <<>> \/ \A p \in FetchPeers : ~NextPeer(p)
    /\ SetFetcher(DrainRequests([FetcherState EXCEPT !.chan = <<>>], chan))
    /\ UNCHANGED rkind
    /\ UNCHANGED notFetch

\* StateFetcher::followup_request
FollowupRequest(st, p) ==
    IF st.queued = <<>> THEN st
    ELSE PrepareBlockRequest([st EXCEPT !.queued = Tail(st.queued)], p, Head(st.queued))

\* PeerState::on_request_finished and the follow-up of a response
OnRequestFinished(st, p) ==
    IF st.peers[p] = "Absent" \/ st.peers[p] = "Closing" THEN st
    ELSE FollowupRequest([st EXCEPT !.peers[p] = "Idle"], p)

\* StateFetcher::on_block_headers_response
OnBlockHeadersResponse(p, res) ==
    /\ ~crashed
    /\ SetFetcher(OnRequestFinished(
          [FetcherState EXCEPT !.H = MapRemove(inflightH, p),
                               !.reply = SendReply(reply, EntriesOf(inflightH, p), res)], p))
    /\ UNCHANGED rkind
    /\ UNCHANGED notFetch

\* StateFetcher::on_block_bodies_response
OnBlockBodiesResponse(p, res) ==
    /\ ~crashed
    /\ SetFetcher(OnRequestFinished(
          [FetcherState EXCEPT !.B = MapRemove(inflightB, p),
                               !.reply = SendReply(reply, EntriesOf(inflightB, p), res)], p))
    /\ UNCHANGED rkind
    /\ UNCHANGED notFetch

RequestResult == {"Ok", "Err"}

NextFetch ==
    \/ \E p \in FetchPeers : NewConnectedPeer(p)
    \/ \E p \in FetchPeers : OnSessionClosed(p)
    \/ \E p \in FetchPeers : OnPendingDisconnect(p)
    \/ GetBlockHeaders
    \/ \E kind \in {"Headers", "Bodies"} : Enqueue(kind)
    \/ \E p \in FetchPeers : PollAction(p)
    \/ PollPending
    \/ \E p \in FetchPeers, res \in RequestResult : OnBlockHeadersResponse(p, res)
    \/ \E p \in FetchPeers, res \in RequestResult : OnBlockBodiesResponse(p, res)

(***************************************************************************)
(* TransactionFetcher                                                      *)
(***************************************************************************)
TxPeers == 1..NumTxPeers

TxHashes == 1..NumTxHashes

\* the hash lists of an announcement: every hash at most once
AnnLists ==
    {hs \in UNION {[1..n -> TxHashes] : n \in 1..MaxAnnounce} :
        \A i, j \in 1..Len(hs) : i # j => hs[i] # hs[j]}

\* the eth version negotiated with a peer: every second peer speaks eth68
Eth68Peer(p) == p % 2 = 0

\* the size an eth68 announcement states for a hash
SizeOf(h) == 1 + (h % 2)

\* no entry in unknown_hashes
Untracked == [t |-> FALSE, retries |-> 0, peers |-> <<>>]

\* variant: a re-created entry starts with one retry used
FreshEntry_used == [t |-> TRUE, retries |-> 1, peers |-> <<>>]

\* the entry of a new hash: (0, LruCache::new(limit))
FreshEntry == [t |-> TRUE, retries |-> 0, peers |-> <<>>]

NoWork == [phase |-> "none", peer |-> None, hashes |-> <<>>, surplus |-> <<>>]

NoLast == [evicted |-> {}, dropped |-> {}, reborn |-> {}]

InitTx ==
    /\ active_peers = [p \in TxPeers |-> 0]
    /\ inflight_requests = [p \in TxPeers |-> <<>>]
    /\ buffered_hashes = <<>>
    /\ unknown_hashes = [h \in TxHashes |-> Untracked]
    /\ eth68_meta = [h \in TxHashes |-> 0]
    /\ work = NoWork
    /\ ejected = {}
    /\ last = NoLast
    /\ gave_up = FALSE

\* the fetcher as one value: the fields an operation reads and writes, and
\* what the operation evicted, dropped and re-created
TxState ==
    [active |-> active_peers, inflight |-> inflight_requests, buffered |-> buffered_hashes,
     unknown |-> unknown_hashes, eth68 |-> eth68_meta,
     evicted |-> {}, dropped |-> {}, reborn |-> {}]

\* the hashes that stopped being tracked for retry exhaustion or eviction
Ejected(st) ==
    {h \in (ejected \cup st.evicted \cup st.dropped) : ~st.unknown[h].t}

\* the fields of a fetcher value become the next state
SetTx(st) ==
    /\ active_peers' = st.active
    /\ inflight_requests' = st.inflight
    /\ buffered_hashes' = st.buffered
    /\ unknown_hashes' = st.unknown
    /\ eth68_meta' = st.eth68
    /\ ejected' = Ejected(st)
    /\ last' = [evicted |-> st.evicted, dropped |-> st.dropped, reborn |-> st.reborn]
    /\ gave_up' = gave_up

\* LruCache::remove
SeqRemove(q, x) == SelectSeq(q, LAMBDA y : y # x)

\* LruCache::insert_and_get_evicted: a present entry is refreshed, a new one
\* is added and evicts the least recently used entry of a full cache
LruInsert(q, x, cap) ==
    IF x \in Range(q) THEN [seq |-> Append(SeqRemove(q, x), x), ev |-> {}]
    ELSE IF Len(q) >= cap THEN [seq |-> Append(Tail(q), x), ev |-> {Head(q)}]
    ELSE [seq |-> Append(q, x), ev |-> {}]

\* TransactionFetcher::remove_from_unknown_hashes
RECURSIVE RemoveFromUnknownHashes(_, _)
RemoveFromUnknownHashes(st, hs) ==
    IF hs = <<>> THEN st
    ELSE RemoveFromUnknownHashes(
            [st EXCEPT !.unknown[Head(hs)] = Untracked, !.eth68[Head(hs)] = 0], Tail(hs))

\* TransactionFetcher::update_peer_activity
UpdatePeerActivity(st, p) ==
    [st EXCEPT !.active[p] = IF @ <= 1 THEN 0 ELSE @ - 1]

\* TransactionFetcher::is_idle
TxIsIdle(st, p) == st.active[p] < MAX_CONCURRENT_TX_REQUESTS_PER_PEER

\* variant: the evicted hash stays in unknown_hashes and eth68_meta
PurgeEvicted_keep(st, ev) == [st EXCEPT !.evicted = @ \cup ev]

\* buffer_hashes: the hash evicted from buffered_hashes is removed from
\* unknown_hashes and eth68_meta
PurgeEvicted(st, ev) ==
    [st EXCEPT
       !.unknown = [h \in TxHashes |-> IF h \in ev THEN Untracked ELSE @[h]],
       !.eth68 = [h \in TxHashes |-> IF h \in ev THEN 0 ELSE @[h]],
       !.evicted = @ \cup ev]

\* buffer_hashes: self.buffered_hashes.insert_and_get_evicted(hash)
InsertBuffered(st, h) ==
    LET r == LruInsert(st.buffered, h, MAX_CAPACITY_BUFFERED_HASHES)
    IN PurgeEvicted([st EXCEPT !.buffered = r.seq], r.ev)

\* variant: the hash is dropped one retry early
RetryLimitReached_early(retries) == retries >= MAX_REQUEST_RETRIES_PER_TX_HASH - 1

\* buffer_hashes: `*retries >= MAX_REQUEST_RETRIES_PER_TX_HASH`
RetryLimitReached(retries) == retries >= MAX_REQUEST_RETRIES_PER_TX_HASH

\* TransactionFetcher::buffer_hashes (fb = None: buffer_hashes_for_retry)
RECURSIVE BufferHashesLoop(_, _, _, _)
BufferHashesLoop(st, hs, fb, max_retried_hashes) ==
    IF hs = <<>>
    THEN [RemoveFromUnknownHashes(st, max_retried_hashes)
            EXCEPT !.dropped = Range(max_retried_hashes)]
    ELSE LET hash == Head(hs) IN
         IF ~st.unknown[hash].t THEN st
         ELSE IF fb # None
         THEN BufferHashesLoop(
                 InsertBuffered(
                    [st EXCEPT !.unknown[hash].peers =
                        LruInsert(@, fb, MAX_ALTERNATIVE_PEERS_PER_TX).seq], hash),
                 Tail(hs), fb, max_retried_hashes)
         ELSE IF RetryLimitReached(st.unknown[hash].retries)
         THEN BufferHashesLoop(st, Tail(hs), fb, Append(max_retried_hashes, hash))
         ELSE BufferHashesLoop(
                 InsertBuffered([st EXCEPT !.unknown[hash].retries = @ + 1], hash),
                 Tail(hs), fb, max_retried_hashes)

\* variant: buffering with a fallback peer counts as a retry too
BufferHashes_count(st, hs, fb) ==
    LET r == BufferHashesLoop(st, hs, fb, <<>>)
    IN [r EXCEPT !.unknown =
          [h \in DOMAIN r.unknown |->
              IF fb # None /\ h \in Range(hs) /\ r.unknown[h].t
              THEN [r.unknown[h] EXCEPT !.retries = @ + 1] ELSE r.unknown[h]]]

BufferHashes(st, hs, fb) == BufferHashesLoop(st, hs, fb, <<>>)

\* TransactionFetcher::on_received_full_transactions_broadcast
OnReceivedFullTransactionsBroadcast(st, hs) == RemoveFromUnknownHashes(st, hs)

\* filter_unseen_hashes: the fallback peers it removes before it registers
\* the announcing peer (`if is_session_active(peer_id) { ended_sessions.push(peer_id) }`);
\* alive is the set of peers for which is_session_active returns true
EndedSessions(backups, alive) == {fp \in Range(backups) : fp \in alive}

\* TransactionFetcher::filter_unseen_hashes; res.kept is the retained list
RECURSIVE FilterUnseenLoop(_, _, _, _, _)
FilterUnseenLoop(st, hs, p, alive, kept) ==
    IF hs = <<>> THEN [st |-> st, kept |-> kept]
    ELSE LET hash == Head(hs) IN
         IF st.unknown[hash].t
         THEN IF hash \in Range(st.buffered)
              THEN FilterUnseenLoop([st EXCEPT !.buffered = SeqRemove(@, hash)],
                                    Tail(hs), p, alive, Append(kept, hash))
              ELSE LET backups == st.unknown[hash].peers
                       rest == SelectSeq(backups,
                                         LAMBDA fp : fp \notin EndedSessions(backups, alive))
                   IN FilterUnseenLoop(
                         [st EXCEPT !.unknown[hash].peers =
                             LruInsert(rest, p, MAX_ALTERNATIVE_PEERS_PER_TX).seq],
                         Tail(hs), p, alive, kept)
         ELSE FilterUnseenLoop(
                 [st EXCEPT !.unknown[hash] = FreshEntry,
                            !.reborn = IF hash \in ejected THEN @ \cup {hash} ELSE @],
                 Tail(hs), p, alive, Append(kept, hash))

\* variant: the announcing peer is not stored as a fallback peer
FilterUnseenHashes_forget(st, hs, p, alive) ==
    LET r == FilterUnseenLoop(st, hs, p, alive, <<>>)
    IN [r EXCEPT !.st.unknown =
          [h \in DOMAIN st.unknown |->
              IF st.unknown[h].t THEN st.unknown[h] ELSE r.st.unknown[h]]]

FilterUnseenHashes(st, hs, p, alive) == FilterUnseenLoop(st, hs, p, alive, <<>>)

\* the caller stores the sizes of an eth68 announcement for the hashes it keeps
RECURSIVE StoreEth68Meta(_, _)
StoreEth68Meta(st, hs) ==
    IF hs = <<>> THEN st
    ELSE StoreEth68Meta([st EXCEPT !.eth68[Head(hs)] = SizeOf(Head(hs))], Tail(hs))

\* variant: a hash may exceed the response size by one
IncludeEth68Hash_over(st, acc, h) ==
    st.eth68[h] # 0 /\ acc + st.eth68[h] <= MAX_FULL_TRANSACTIONS_PACKET_SIZE + 1

\* variant: a hash that fills the response exactly is turned down
IncludeEth68Hash_strict(st, acc, h) ==
    st.eth68[h] # 0 /\ acc + st.eth68[h] < MAX_FULL_TRANSACTIONS_PACKET_SIZE

\* TransactionFetcher::include_eth68_hash: the hash fits the response
IncludeEth68Hash(st, acc, h) ==
    st.eth68[h] # 0 /\ acc + st.eth68[h] <= MAX_FULL_TRANSACTIONS_PACKET_SIZE

\* fill_request_for_peer: the final loop removes the request's hashes from
\* buffered_hashes
RECURSIVE RemoveBuffered(_, _)
RemoveBuffered(st, hs) ==
    IF hs = <<>> THEN st
    ELSE RemoveBuffered([st EXCEPT !.buffered = SeqRemove(@, Head(hs))], Tail(hs))

\* fill_request_for_peer: the loop over buffered_hashes.iter()
RECURSIVE FillLoop(_, _, _, _, _, _)
FillLoop(st, bs, hashes, p, is68, acc) ==
    IF bs = <<>> THEN [st |-> st, hashes |-> hashes]
    ELSE LET hash == Head(bs)
             upgrade == st.unknown[hash].t /\ p \in Range(st.unknown[hash].peers)
             st1 == IF upgrade
                    THEN [st EXCEPT !.unknown[hash].peers = SeqRemove(@, p)] ELSE st
             hashes1 == IF upgrade THEN Append(hashes, hash) ELSE hashes
         IN IF is68
            THEN IF acc >= MAX_FULL_TRANSACTIONS_PACKET_SIZE
                 THEN [st |-> st, hashes |-> hashes]
                 ELSE IF st.eth68[hash] # 0 /\ ~IncludeEth68Hash(st, acc, hash)
                 THEN FillLoop(st, Tail(bs), hashes, p, is68, acc)
                 ELSE FillLoop(st1, Tail(bs), hashes1, p, is68, acc + st.eth68[hash])
            ELSE IF Len(hashes) >= GET_POOLED_TRANSACTION_SOFT_LIMIT_NUM_HASHES
                 THEN [st |-> st, hashes |-> hashes]
                 ELSE FillLoop(st1, Tail(bs), hashes1, p, is68, acc)

\* variant: the hashes taken for the request stay in buffered_hashes
FillRequestForPeer_keep(st, hashes, p, is68, acc) ==
    LET r == FillLoop(st, st.buffered, hashes, p, is68, acc)
    IN [st |-> r.st, hashes |-> r.hashes, surplus |-> <<>>]

\* TransactionFetcher::fill_request_for_peer
FillRequestForPeer(st, hashes, p, is68, acc) ==
    LET r == FillLoop(st, st.buffered, hashes, p, is68, acc)
    IN [st |-> RemoveBuffered(r.st, r.hashes), hashes |-> r.hashes, surplus |-> <<>>]

\* variant: the list is split one hash after the limit
PackHashesEth66_long(st, hashes, p) ==
    IF Len(hashes) <= GET_POOLED_TRANSACTION_SOFT_LIMIT_NUM_HASHES
    THEN FillRequestForPeer(st, hashes, p, FALSE, 0)
    ELSE [st |-> st,
          hashes |-> SubSeq(hashes, 1, GET_POOLED_TRANSACTION_SOFT_LIMIT_NUM_HASHES + 1),
          surplus |-> SubSeq(hashes, GET_POOLED_TRANSACTION_SOFT_LIMIT_NUM_HASHES + 2, Len(hashes))]

\* TransactionFetcher::pack_hashes_eth66
PackHashesEth66(st, hashes, p) ==
    IF Len(hashes) < GET_POOLED_TRANSACTION_SOFT_LIMIT_NUM_HASHES
    THEN FillRequestForPeer(st, hashes, p, FALSE, 0)
    ELSE [st |-> st,
          hashes |-> SubSeq(hashes, 1, GET_POOLED_TRANSACTION_SOFT_LIMIT_NUM_HASHES),
          surplus |-> SubSeq(hashes, GET_POOLED_TRANSACTION_SOFT_LIMIT_NUM_HASHES + 1, Len(hashes))]

\* pack_hashes_eth68: hashes.retain(include_eth68_hash)
RECURSIVE RetainEth68(_, _, _, _, _)
RetainEth68(st, hs, acc, kept, surplus) ==
    IF hs = <<>> THEN [acc |-> acc, kept |-> kept, surplus |-> surplus]
    ELSE IF IncludeEth68Hash(st, acc, Head(hs))
         THEN RetainEth68(st, Tail(hs), acc + st.eth68[Head(hs)], Append(kept, Head(hs)), surplus)
         ELSE RetainEth68(st, Tail(hs), acc, kept, Append(surplus, Head(hs)))

\* TransactionFetcher::pack_hashes_eth68
PackHashesEth68(st, hashes, p) ==
    LET r == RetainEth68(st, hashes, 0, <<>>, <<>>)
    IN IF r.acc < MAX_FULL_TRANSACTIONS_PACKET_SIZE
       THEN [FillRequestForPeer(st, r.kept, p, TRUE, r.acc) EXCEPT !.surplus = r.surplus]
       ELSE [st |-> st, hashes |-> r.kept, surplus |-> r.surplus]

\* TransactionFetcher::pack_hashes
PackHashes(st, hashes, p) ==
    IF hashes = <<>> THEN [st |-> st, hashes |-> hashes, surplus |-> <<>>]
    ELSE IF st.eth68[hashes[1]] # 0 THEN PackHashesEth68(st, hashes, p)
    ELSE PackHashesEth66(st, hashes, p)

\* variant: one peer more than the limit may be active
GlobalLimitReached_off(st) ==
    Cardinality({q \in DOMAIN st.active : st.active[q] > 0}) > MAX_CONCURRENT_TX_REQUESTS

\* request_transactions_from_peer: active_peers.len() >= MAX_CONCURRENT_TX_REQUESTS
GlobalLimitReached(st) ==
    Cardinality({q \in DOMAIN st.active : st.active[q] > 0}) >= MAX_CONCURRENT_TX_REQUESTS

\* variant: a peer may hold one request more than the limit
PeerLimitReached_off(inflight_count) == inflight_count > MAX_CONCURRENT_TX_REQUESTS_PER_PEER

\* request_transactions_from_peer: *inflight_count >= MAX_CONCURRENT_TX_REQUESTS_PER_PEER
PeerLimitReached(inflight_count) == inflight_count >= MAX_CONCURRENT_TX_REQUESTS_PER_PEER

\* TransactionFetcher::request_transactions_from_peer; send is the outcome of
\* try_send: "Ok", "Full" or "Closed"; res.rejected is the returned Option,
\* res.tried tells whether try_send was called
RequestTransactionsFromPeer(st, hashes, p, send) ==
    IF GlobalLimitReached(st) THEN [st |-> st, rejected |-> TRUE, tried |-> FALSE]
    ELSE IF PeerLimitReached(st.active[p]) THEN [st |-> st, rejected |-> TRUE, tried |-> FALSE]
    ELSE LET st1 == [st EXCEPT !.active[p] = @ + 1]
         IN IF send # "Ok"
            THEN [st |-> RemoveFromUnknownHashes(st1, hashes), rejected |-> TRUE,
                  tried |-> TRUE]
            ELSE [st |-> [st1 EXCEPT !.inflight[p] = Append(@, hashes)], rejected |-> FALSE,
                  tried |-> TRUE]

\* the requested hashes the response does not contain
NotDelivered(requested, delivered) == SelectSeq(requested, LAMBDA h : h \notin delivered)

\* TransactionFetcher::poll_next for the completed request of peer p;
\* result is "Ok" (with the delivered hashes), "Err" or "Closed"
PollNext(st, p, result, delivered) ==
    LET requested_hashes == Head(st.inflight[p])
        st1 == UpdatePeerActivity([st EXCEPT !.inflight[p] = Tail(@)], p)
    IN IF result = "Ok"
       THEN BufferHashes(
               [st1 EXCEPT
                  !.unknown = [h \in TxHashes |->
                      IF h \in delivered /\ h \in Range(requested_hashes) THEN Untracked ELSE @[h]],
                  !.eth68 = [h \in TxHashes |->
                      IF h \in delivered /\ h \in Range(requested_hashes) THEN 0 ELSE @[h]]],
               NotDelivered(requested_hashes, delivered), None)
       ELSE BufferHashes(st1, requested_hashes, None)

\* ---- the operations as steps of the caller of the fetcher ----

\* a peer announces hashes: filter_unseen_hashes, then the sizes of an eth68
\* announcement are stored for the hashes that stay in the list; alive is the
\* set of peers is_session_active holds for, the announcing peer among them
Announce(p, hs, alive) ==
    /\ work.phase = "none"
    /\ p \in alive
    /\ LET r == FilterUnseenHashes(TxState, hs, p, alive)
           st == IF Eth68Peer(p) THEN StoreEth68Meta(r.st, r.kept) ELSE r.st
       IN /\ SetTx(st)
          /\ work' = IF r.kept = <<>> THEN NoWork
                     ELSE [phase |-> "announced", peer |-> p, hashes |-> r.kept, surplus |-> <<>>]
    /\ UNCHANGED notTx

\* buffer_hashes(hashes, Some(peer)) on the list the caller holds
BufferWithFallback ==
    /\ work.phase \in {"announced", "rejected"}
    /\ SetTx(BufferHashes(TxState, work.hashes, work.peer))
    /\ work' = NoWork
    /\ UNCHANGED notTx

\* pack_hashes on the announced list
Pack ==
    /\ work.phase = "announced"
    /\ LET r == PackHashes(TxState, work.hashes, work.peer)
       IN /\ SetTx(r.st)
          /\ work' = [work EXCEPT !.phase = "packed", !.hashes = r.hashes, !.surplus = r.surplus]
    /\ UNCHANGED notTx

\* an idle peer is asked for buffered hashes it is a fallback peer of:
\* pack_hashes_eth66 on an empty list
PackBuffered(p) ==
    /\ work.phase = "none"
    /\ TxIsIdle(TxState, p)
    /\ LET r == PackHashesEth66(TxState, <<>>, p)
       IN /\ r.hashes # <<>>
          /\ SetTx(r.st)
          /\ work' = [phase |-> "packed", peer |-> p, hashes |-> r.hashes, surplus |-> <<>>]
    /\ UNCHANGED notTx

\* buffer_hashes(surplus, Some(peer)) on the surplus pack_hashes returned
BufferSurplus ==
    /\ work.phase = "packed"
    /\ work.surplus # <<>>
    /\ SetTx(BufferHashes(TxState, work.surplus, work.peer))
    /\ work' = IF work.hashes = <<>> THEN NoWork ELSE [work EXCEPT !.surplus = <<>>]
    /\ UNCHANGED notTx

\* request_transactions_from_peer on the packed list
Request(send) ==
    /\ work.phase = "packed"
    /\ work.surplus = <<>>
    /\ work.hashes # <<>>
    /\ LET r == RequestTransactionsFromPeer(TxState, work.hashes, work.peer, send)
       IN /\ SetTx(r.st)
          /\ work' = IF r.rejected THEN [work EXCEPT !.phase = "rejected"] ELSE NoWork
    /\ UNCHANGED notTx

\* the caller gives up the hashes request_transactions_from_peer returned
DropRejected ==
    /\ work.phase = "rejected"
    /\ work' = NoWork
    /\ last' = NoLast
    /\ gave_up' = TRUE
    /\ UNCHANGED <<active_peers, inflight_requests, buffered_hashes, unknown_hashes,
                   eth68_meta, ejected>>
    /\ UNCHANGED notTx

\* Stream::poll_next: the request of peer p resolves
Response(p, result, delivered) ==
    /\ work.phase = "none"
    /\ inflight_requests[p] # <<>>
    /\ result = "Ok" \/ delivered = {}
    /\ delivered \subseteq Range(Head(inflight_requests[p]))
    /\ SetTx(PollNext(TxState, p, result, delivered))
    /\ UNCHANGED work
    /\ UNCHANGED notTx

\* full transactions arrive in a broadcast
Broadcast(h) ==
    /\ work.phase = "none"
    /\ SetTx(OnReceivedFullTransactionsBroadcast(TxState, <<h>>))
    /\ UNCHANGED work
    /\ UNCHANGED notTx

NextTx ==
    \/ \E p \in TxPeers, hs \in AnnLists, alive \in SUBSET TxPeers :
          Announce(p, hs, alive)
    \/ BufferWithFallback
    \/ Pack
    \/ \E p \in TxPeers : PackBuffered(p)
    \/ BufferSurplus
    \/ \E send \in {"Ok", "Full", "Closed"} : Request(send)
    \/ DropRejected
    \/ \E p \in TxPeers, result \in {"Ok", "Err", "Closed"}, delivered \in SUBSET TxHashes :
          Response(p, result, delivered)
    \/ \E h \in TxHashes : Broadcast(h)

(***************************************************************************)
(* Single calls of pack_hashes_eth66, pack_hashes_eth68 and                *)
(* request_transactions_from_peer                                          *)
(***************************************************************************)
\* one peer more than the global limit admits
CallPeers == 1..(MAX_CONCURRENT_TX_REQUESTS + 1)

\* the hashes that wait in buffered_hashes, least recently used first
BufferedId(k) == MaxPackHashes + k

\* the hash peer q has been asked for
InflightId(q) == MaxPackHashes + 2 + q

CallHashes == 1..(MaxPackHashes + 2 + MAX_CONCURRENT_TX_REQUESTS + 1)

\* sizes of eth68 announcements: up to one more than the budget
MaxTxSize == MAX_FULL_TRANSACTIONS_PACKET_SIZE + 1

\* the passed list: n new hashes, named by their position
InputList(n) == [i \in 1..n |-> i]

\* the sizes announced for n hashes: all known (eth68) or none (eth66)
InputSizes(n) == [1..n -> 1..MaxTxSize] \cup {[i \in 1..n |-> 0]}

NotBuffered == [t |-> FALSE, size |-> 0, peers |-> <<>>]

\* the first buffered hash: none, or one with its size and fallback peers
BufferedChoices ==
    {NotBuffered} \cup [t : {TRUE}, size : 0..MaxTxSize, peers : {<<>>, <<1>>, <<2>>}]

\* the second buffered hash
BufferedChoices2 ==
    {NotBuffered} \cup [t : {TRUE}, size : 0..1, peers : {<<>>, <<1>>}]

\* a fetcher that tracks the n hashes of the list, the buffered hashes and
\* one requested hash for every peer of act
CallState(n, sizes, buf, act) ==
    [active |-> [q \in CallPeers |-> IF q \in act THEN 1 ELSE 0],
     inflight |-> [q \in CallPeers |-> IF q \in act THEN <<<<InflightId(q)>>>> ELSE <<>>],
     buffered |-> SelectSeq(<<BufferedId(1), BufferedId(2)>>,
                            LAMBDA h : buf[h - MaxPackHashes].t),
     unknown |-> [h \in CallHashes |->
                    IF h <= n THEN FreshEntry
                    ELSE IF h \in {BufferedId(1), BufferedId(2)}
                    THEN IF buf[h - MaxPackHashes].t
                         THEN [t |-> TRUE, retries |-> 0, peers |-> buf[h - MaxPackHashes].peers]
                         ELSE Untracked
                    ELSE IF \E q \in act : h = InflightId(q) THEN FreshEntry
                    ELSE Untracked],
     eth68 |-> [h \in CallHashes |->
                  IF h <= n THEN sizes[h]
                  ELSE IF h \in {BufferedId(1), BufferedId(2)}
                  THEN buf[h - MaxPackHashes].size ELSE 0],
     evicted |-> {}, dropped |-> {}, reborn |-> {}]

\* the fallback peers of the hashes in flight: none, some, or as many as the
\* set holds
FallbackChoices == {<<>>, <<2>>, <<3>>, <<2, 3>>, <<2, 3, 4>>}

\* the fetcher st with fb as the fallback peers of every hash in flight
WithFallbacks(st, act, fb) ==
    [st EXCEPT !.unknown =
        [h \in CallHashes |->
            IF \E q \in act : h = InflightId(q)
            THEN [st.unknown[h] EXCEPT !.peers = fb] ELSE st.unknown[h]]]

NoCall == [op |-> "none"]

\* the fetcher values and lists the functions are called on: any list and
\* buffer with no request in flight, or a short list with requests in flight
InitCall ==
    /\ pres = NoCall
    /\ \E n \in 0..MaxPackHashes, b1 \in BufferedChoices, b2 \in BufferedChoices2,
          act \in SUBSET CallPeers :
         /\ b2.t => b1.t
         /\ act = {} \/ (n \in 1..2 /\ ~b1.t)
         /\ phs = InputList(n)
         /\ \E sizes \in InputSizes(n), fb \in FallbackChoices :
              /\ act # {} => sizes = [i \in 1..n |-> 0]
              /\ act = {} => fb = <<>>
              /\ pst = WithFallbacks(CallState(n, sizes, <<b1, b2>>, act), act, fb)

\* the fetcher of the other specifications makes no single call: empty list,
\* new fetcher
InitNoCall ==
    /\ pres = NoCall
    /\ phs = <<>>
    /\ pst = CallState(0, <<>>, <<NotBuffered, NotBuffered>>, {})

\* pack_hashes_eth68(hashes, peer 1)
CallPackEth68 ==
    /\ pres = NoCall
    /\ LET r == PackHashesEth68(pst, phs, 1)
       IN pres' = [op |-> "eth68", peer |-> 1, st |-> r.st, hashes |-> r.hashes,
                   surplus |-> r.surplus, rejected |-> FALSE, tried |-> FALSE]
    /\ UNCHANGED <<pst, phs>>
    /\ UNCHANGED notCall

\* pack_hashes_eth66(hashes, peer 1)
CallPackEth66 ==
    /\ pres = NoCall
    /\ LET r == PackHashesEth66(pst, phs, 1)
       IN pres' = [op |-> "eth66", peer |-> 1, st |-> r.st, hashes |-> r.hashes,
                   surplus |-> r.surplus, rejected |-> FALSE, tried |-> FALSE]
    /\ UNCHANGED <<pst, phs>>
    /\ UNCHANGED notCall

\* request_transactions_from_peer(hashes, peer p); the returned Option holds
\* the passed list
CallRequest(p, send) ==
    /\ pres = NoCall
    /\ phs # <<>>
    /\ LET r == RequestTransactionsFromPeer(pst, phs, p, send)
       IN pres' = [op |-> "request", peer |-> p, st |-> r.st,
                   hashes |-> IF r.rejected THEN phs ELSE <<>>,
                   surplus |-> <<>>, rejected |-> r.rejected, tried |-> r.tried]
    /\ UNCHANGED <<pst, phs>>
    /\ UNCHANGED notCall

\* the hashes of an announcement: two of the caller's list (tracked in a
\* fetcher whose list holds them, untracked in the others), a buffered one and
\* one in flight
FilterHashes == {1, 2, BufferedId(1), InflightId(1)}

\* the announcements: one or two different hashes
FilterLists ==
    {<<h>> : h \in FilterHashes} \cup
    {q \in {<<h, g>> : h \in FilterHashes, g \in FilterHashes} : q[1] # q[2]}

\* filter_unseen_hashes(hs, peer p) on a fetcher whose caller holds at most
\* one hash; the sessions of alive are active
CallFilter(hs, p, alive) ==
    /\ pres = NoCall
    /\ Len(phs) <= 1
    /\ LET r == FilterUnseenHashes(pst, hs, p, alive)
       IN pres' = [op |-> "filter", peer |-> p, st |-> r.st, hashes |-> r.kept,
                   surplus |-> <<>>, rejected |-> FALSE, tried |-> FALSE, input |-> hs,
                   alive |-> alive]
    /\ UNCHANGED <<pst, phs>>
    /\ UNCHANGED notCall

NextCall ==
    \/ CallPackEth68
    \/ CallPackEth66
    \/ \E p \in CallPeers, send \in {"Ok", "Full", "Closed"} : CallRequest(p, send)
    \/ \E hs \in FilterLists, p \in {1, 2} : CallFilter(hs, p, {p}) \/ CallFilter(hs, p, CallPeers)

(***************************************************************************)
(* Specifications                                                          *)
(***************************************************************************)
vars == <<chainVars, persistVars, fetchVars, txVars, callVars>>

Init == InitChain /\ InitPersist /\ InitFetch /\ InitTx /\ InitNoCall

Next == NextChain \/ NextPersist \/ NextFetch \/ NextTx \/ NextCall

Spec == Init /\ [][Next]_vars

SpecChain == Init /\ [][NextChain]_vars

\* a poll that was entered keeps executing: its steps are weakly fair; the
\* caller is not obliged to poll
SpecChainLive == Init /\ [][NextChainLive]_vars /\ WF_vars(PollStep)

SpecPersist == Init /\ [][NextPersist]_vars

SpecFetch == Init /\ [][NextFetch]_vars

SpecTx == Init /\ [][NextTx]_vars

\* single calls on drawn fetcher values
InitDrawn == InitChain /\ InitPersist /\ InitFetch /\ InitTx /\ InitCall

SpecCall == InitDrawn /\ [][NextCall]_vars

(***************************************************************************)
(* Properties of the ChainOrchestrator                                     *)
(***************************************************************************)

\* C1: the handler is never notified PipelineStarted while an earlier
\* PipelineStarted is not yet followed by PipelineFinished or FatalError,
\* also when the handler issues RequestSync during the run.
C1_NoSecondStartedWhileActive == [][hStarted' > hStarted => ~runOpen]_vars

\* a run is active and the handler has requested another sync meanwhile
C1_Witness == runOpen /\ pstate = "Running" /\ ptarget # None /\ hStarted >= 1

\* C2 (as claimed): the handler is not polled while a pipeline run is active.
C2_HandlerNotPolledDuringRun == cpc = "handler" => pstate # "Running"

\* C2 (amended): the handler is polled only right after a pipeline poll of
\* the same loop iteration that returned Idle or Pending; a ready Started or
\* Finished event is returned without consulting the handler.
C2_PipelinePolledFirst ==
    [][cpc' = "handler" => (cpc = "pipeline" /\ lastPipe' \in {"Idle", "Pending"})]_vars

\* the handler is about to be polled during an active run
C2_Witness == cpc = "handler" /\ pstate = "Running" /\ lastPipe = "Pending"

\* C3: every Started event of the pipeline is notified to the handler before
\* anything else of that run is handled, PipelineFinished is only notified
\* for a run whose PipelineStarted was notified, and a ChainEvent is returned
\* only after its notification was delivered.
C3_NotifyBeforeEvent ==
    /\ hStarted = pStarted
    /\ hFinished + (IF pstate = "Running" THEN 1 ELSE 0) <= hStarted
    /\ eStarted <= hStarted
    /\ eFinished <= hFinished
    /\ (cpc = "ret" /\ cret = "PipelineStarted") => hStarted = eStarted + 1
    /\ (cpc = "ret" /\ cret = "PipelineFinished") => hFinished = eFinished + 1

\* a second run finished: its PipelineFinished is notified, not yet returned
C3_Witness == cpc = "ret" /\ cret = "PipelineFinished" /\ hFinished = 2 /\ eStarted = 2

\* C21: once FatalError has been returned for a failed pipeline run, no
\* poll calls pipeline.on_action(Start), no run is started and no
\* PipelineStarted or PipelineFinished is notified or returned.
C21_FailureIsTerminal ==
    [][eFatal > 0 =>
          /\ nreq' = nreq
          /\ pStarted' = pStarted
          /\ hStarted' = hStarted /\ hFinished' = hFinished
          /\ eStarted' = eStarted /\ eFinished' = eFinished]_vars

\* C27: a RequestSync(target) returned by the handler causes exactly one
\* pipeline.on_action(Start(target)) with that target, on_action(Start) is
\* called for nothing else, and the step after a handler poll is a pipeline
\* poll or the return of poll, never another handler poll.
C27_RequestSyncStartsOnce ==
    [][/\ cpc = "handler" => cpc' \in {"handler", "pipeline", "ret"}
       /\ (cpc = "handler" /\ cpc' = "handler") => UNCHANGED vars
       /\ (cpc = "handler" /\ cpc' = "pipeline") =>
             /\ nreq' = nreq + 1
             /\ htarget' \in Targets
             /\ ptarget' = htarget'
       /\ (cpc = "handler" /\ cpc' = "ret") => nreq' = nreq /\ ptarget' = ptarget
       /\ (nreq' # nreq \/ htarget' # htarget \/ (ptarget' # ptarget /\ ptarget' # None)) =>
             cpc = "handler" /\ cpc' = "pipeline"]_vars

\* the handler requested a sync for a target other than its previous one
\* and the pipeline is about to be polled with it
C27_Witness ==
    /\ cpc = "pipeline" /\ nreq >= 2
    /\ ptarget = htarget /\ ptarget # None
    /\ lastPipe \in {"Idle", "Pending"}

\* C37: every PipelineStarted notification to the handler is followed by a
\* PipelineFinished notification once the pipeline reports the run Finished,
\* with Ok or with Err: when no run is in progress the handler has been told
\* PipelineFinished as often as PipelineStarted.
C37_FinishedRunIsNotified == pstate = "Idle" => hFinished = hStarted

\* C40: a single poll terminates for every behaviour of the handler and the
\* pipeline: a poll that was entered returns after finitely many pipeline and
\* handler polls.
C40_PollTerminates == (cpc # "out") ~> (cpc = "out")

(***************************************************************************)
(* Properties of the Persistence actor                                     *)
(***************************************************************************)

\* C10: the actions are applied to the store in the order in which they
\* were sent on the channel, one at a time: the applied actions are a prefix
\* of the submitted ones and the action in progress is the next one.
C10_FifoOrder ==
    /\ Len(applied) <= Len(submitted)
    /\ applied = SubSeq(submitted, 1, Len(applied))
    /\ apc = "op" => cur.id = submitted[Len(applied) + 1]
    /\ apc = "reply" => cur.id = applied[Len(applied)]

\* two actions of two handles waited in the channel together and both ran
C10_Witness ==
    /\ Len(submitted) = 2
    /\ maxQueued = 2
    /\ Len(applied) = 2
    /\ cst[1] = "done" /\ cst[2] = "waiting"

\* C11: the value sent on the reply channel of a SaveFinalizedBlocks action
\* with a non-empty list is the hash of the last block of that list, it goes
\* to the caller that sent the action, and it is sent after the write of the
\* list: the action is the last one applied and its blocks are in the store.
C11_ReplyIsOwnLastHash ==
    [][(apc = "reply" /\ apc' = "recv" /\ cur.kind = "Save") =>
          /\ cur.blocks # <<>>
          /\ creq[cur.from] = cur.id
          /\ cst'[cur.from] = "done"
          /\ cval'[cur.from] = BlockHash(cur.blocks[Len(cur.blocks)])
          /\ applied # <<>> /\ applied[Len(applied)] = cur.id
          /\ Range(cur.blocks) \subseteq store]_vars

\* the single action applied so far saved the list <<1, ..., MaxBlock>> and
\* its caller holds the hash of the last block
C11_Witness ==
    /\ Len(applied) = 1
    /\ store = Blocks
    /\ \E c \in Callers :
         cst[c] = "done" /\ creq[c] = applied[1] /\ cval[c] = BlockHash(MaxBlock)

\* C12: a SaveFinalizedBlocks action with an empty list ends with an
\* EmptyBatch error as its outcome, the store untouched and the actor going on.
C12_EmptyBatchIsError ==
    [][(apc = "op" /\ cur.kind = "Save" /\ cur.blocks = <<>> /\ apc' # apc) =>
          /\ apc' = "reply"
          /\ curOut' = [t |-> "EmptyBatch"]
          /\ store' = store]_vars

\* C13: save_blocks and remove_blocks_above never panic the caller.
C13_CallerNeverPanics ==
    \A c \in Callers : cst[c] # "panicked"

C38_AbandonedReplyIgnored ==
    [][(/\ apc = "reply"
        /\ ~(cst[cur.from] = "waiting" /\ creq[cur.from] = cur.id)
        /\ apc' # apc) =>
          /\ apc' = "recv"
          /\ incoming' = incoming
          /\ store' = store]_vars

(***************************************************************************)
(* Properties of the StateFetcher                                          *)
(***************************************************************************)

C18_SubmittedIsQueued ==
    [][\A id \in Range(chan) :
          (id \notin Range(chan') /\ ~crashed') => id \in Range(queued')]_vars

\* C19: when on_session_closed removes a peer, no in-flight entry of the
\* peer remains, every request that was in flight for it is answered with
\* ConnectionDropped, and queued_requests, the other peers, their in-flight
\* entries and the other replies are unchanged.
C19_SessionClosedFailsInflight ==
    [][\A p \in FetchPeers :
          (peers[p] # "Absent" /\ peers'[p] = "Absent" /\ ~crashed') =>
             LET mine == EntriesOf(inflightH, p) \cup EntriesOf(inflightB, p)
             IN /\ EntriesOf(inflightH', p) = {} /\ EntriesOf(inflightB', p) = {}
                /\ \A id \in mine : reply[id] = "Pending" => reply'[id] = "ConnectionDropped"
                /\ \A id \in RequestIds \ mine : reply'[id] = reply[id]
                /\ queued' = queued
                /\ \A q \in FetchPeers \ {p} :
                      /\ peers'[q] = peers[q]
                      /\ EntriesOf(inflightH', q) = EntriesOf(inflightH, q)
                      /\ EntriesOf(inflightB', q) = EntriesOf(inflightB, q)]_vars

\* the session of a peer with a request in flight was closed
C19_Witness ==
    /\ ~crashed
    /\ \E id \in RequestIds : reply[id] = "ConnectionDropped"
    /\ \E p \in FetchPeers : peers[p] = "Absent"

\* C20: a response answers the peer's in-flight request of its kind with the
\* given result and removes the entry; a peer that is not Closing takes the
\* head of a non-empty queue as its next request and is busy with it, and is
\* Idle when the queue is empty.
C20_ResponseThenFollowup ==
    [][\A p \in FetchPeers, id \in RequestIds :
          ( /\ id \in EntriesOf(inflightH, p) \cup EntriesOf(inflightB, p)
            /\ reply[id] = "Pending"
            /\ reply'[id] \in RequestResult ) =>
             /\ id \notin EntriesOf(inflightH', p) \cup EntriesOf(inflightB', p)
             /\ peers[p] \notin {"Absent", "Closing"} =>
                   IF queued = <<>>
                   THEN peers'[p] = "Idle" /\ queued' = <<>>
                   ELSE /\ peers'[p] = PeerStateOf(rkind[Head(queued)])
                        /\ queued' = Tail(queued)
                        /\ Head(queued) \in
                             EntriesOf(inflightH', p) \cup EntriesOf(inflightB', p)]_vars

\* C33: a BlockRequest is only issued to a peer that is in the peer set and
\* Idle at that moment, and a peer that on_pending_disconnect marked Closing
\* gets no request and is not returned to Idle until on_session_closed
\* removes it.
C33_ClosingUntilSessionClosed ==
    [][/\ fout'.t = "BlockRequest" => fout'.was = "Idle"
       /\ \A p \in FetchPeers :
            peers[p] = "Closing" =>
                /\ peers'[p] \in {"Closing", "Absent"}
                /\ ~(fout'.t = "BlockRequest" /\ fout'.peer = p)]_vars

\* C36: a peer has an entry in inflight_headers_requests (inflight_bodies_requests)
\* exactly when it is in the peer set in state GetBlockHeaders (GetBlockBodies),
\* or Closing after such a request; an Idle peer has no in-flight entry, so
\* that inserting an entry for it overwrites nothing.
C36_InflightMatchesPeerState ==
    \A p \in FetchPeers :
        /\ EntriesOf(inflightH, p) # {} => peers[p] \in {"GetBlockHeaders", "Closing"}
        /\ EntriesOf(inflightB, p) # {} => peers[p] \in {"GetBlockBodies", "Closing"}
        /\ peers[p] = "GetBlockHeaders" => EntriesOf(inflightH, p) # {}
        /\ peers[p] = "GetBlockBodies" => EntriesOf(inflightB, p) # {}

(***************************************************************************)
(* Properties of the TransactionFetcher                                    *)
(***************************************************************************)

\* C4: no peer has more than MAX_CONCURRENT_TX_REQUESTS_PER_PEER (1) pending
\* transaction request, and no peer's active_peers counter exceeds it.
C4_OneTxRequestPerPeer ==
    \A p \in TxPeers :
        /\ Len(inflight_requests[p]) <= MAX_CONCURRENT_TX_REQUESTS_PER_PEER
        /\ active_peers[p] <= MAX_CONCURRENT_TX_REQUESTS_PER_PEER

\* a second request to a peer that has one in flight was turned down
C4_Witness ==
    /\ work.phase = "rejected"
    /\ Len(inflight_requests[work.peer]) = 1
    /\ active_peers[work.peer] = 1

\* C6: every hash in buffered_hashes has an entry in unknown_hashes.
C6_BufferedAreUnknown ==
    \A h \in Range(buffered_hashes) : unknown_hashes[h].t

\* C7: a hash that buffer_hashes evicted from the full buffered_hashes is in
\* none of buffered_hashes, unknown_hashes and eth68_meta when the call
\* returns (an evicted hash cannot come back within the call: the loop ends
\* at a hash without an entry in unknown_hashes).
C7_EvictedIsPurged ==
    \A h \in last.evicted :
        /\ h \notin Range(buffered_hashes)
        /\ ~unknown_hashes[h].t
        /\ eth68_meta[h] = 0

\* an insertion into the full buffer evicted a hash
C7_Witness ==
    /\ last.evicted # {}
    /\ Len(buffered_hashes) = MAX_CAPACITY_BUFFERED_HASHES

\* C8 as stated: the second failed delivery of a hash removes its entry, and
\* a hash dropped for its retries is not tracked again by the next operation.
C8_RemovedAtSecondFailure ==
    [][\A h \in TxHashes :
         /\ \A p \in TxPeers :
              ( /\ inflight_requests[p] # <<>>
                /\ inflight_requests'[p] = <<>>
                /\ h \in Range(Head(inflight_requests[p]))
                /\ unknown_hashes[h].t
                /\ unknown_hashes[h].retries = MAX_REQUEST_RETRIES_PER_TX_HASH - 1 )
              => ~unknown_hashes'[h].t
         /\ h \in last.dropped => ~unknown_hashes'[h].t]_vars

\* C8: buffer_hashes without a fallback peer drops a hash for its retries
\* only when the retry count of its entry is already
\* MAX_REQUEST_RETRIES_PER_TX_HASH (2), that is at the third failed delivery
\* since the entry was created; the dropped hash then has no entry in
\* unknown_hashes and eth68_meta, and no entry ever counts more than 2 retries.
C8_DroppedAtRetryLimit ==
    [][\A h \in TxHashes :
         /\ unknown_hashes'[h].retries <= MAX_REQUEST_RETRIES_PER_TX_HASH
         /\ h \in last'.dropped =>
              /\ unknown_hashes[h].t
              /\ unknown_hashes[h].retries = MAX_REQUEST_RETRIES_PER_TX_HASH
              /\ ~unknown_hashes'[h].t
              /\ eth68_meta'[h] = 0]_vars

\* the third failed delivery of a hash dropped it from tracking
C8_Witness ==
    \E h \in TxHashes :
        /\ h \in last.dropped
        /\ ~unknown_hashes[h].t
        /\ h \in ejected

\* C9: a hash that was ejected from tracking (dropped for its retries or
\* evicted from the hash buffer) and appears in an announcement again gets a
\* fresh entry, retry count 0 and no fallback peer, and stays in the list
\* filter_unseen_hashes retains.
C9_RetriesResetOnReannounce ==
    \A h \in last.reborn :
        /\ unknown_hashes[h] = [t |-> TRUE, retries |-> 0, peers |-> <<>>]
        /\ work.phase = "announced"
        /\ h \in Range(work.hashes)

\* an ejected hash was announced again
C9_Witness ==
    /\ last.reborn # {}
    /\ work.phase = "announced"

\* C22: no hash is in the requested set of a pending request and in
\* buffered_hashes.
C22_InflightNotBuffered ==
    \A p \in TxPeers : \A i \in 1..Len(inflight_requests[p]) :
       Range(inflight_requests[p][i]) \cap Range(buffered_hashes) = {}

\* C23: a peer that has a hash in flight is not in the fallback peers of
\* that hash.
C23_RequesterIsNoFallback ==
    \A p \in TxPeers : \A i \in 1..Len(inflight_requests[p]) :
       \A h \in Range(inflight_requests[p][i]) :
          unknown_hashes[h].t => p \notin Range(unknown_hashes[h].peers)

\* C28: a peer has a count in active_peers iff a request future of the peer
\* is pending.
C28_ActiveIffInflight ==
    \A p \in TxPeers : active_peers[p] >= 1 <=> inflight_requests[p] # <<>>

\* C29: between operations, with every list the fetcher returned buffered
\* again by the caller, a tracked hash is in buffered_hashes or in the
\* requested set of a pending request.
C29_TrackedIsBufferedOrInflight ==
    (work.phase = "none" /\ ~gave_up) =>
       \A h \in TxHashes :
          unknown_hashes[h].t =>
             \/ h \in Range(buffered_hashes)
             \/ \E p \in TxPeers : \E i \in 1..Len(inflight_requests[p]) :
                   h \in Range(inflight_requests[p][i])

\* C25: when the request of peer p resolves, the count of p is decremented
\* and p leaves active_peers at zero, and every requested hash is afterwards
\* either absent from unknown_hashes and eth68_meta (delivered, or dropped at
\* the retry limit) or counts one retry more and is in buffered_hashes.
C25_ResponseCompletion ==
    [][\A p \in TxPeers :
          (inflight_requests[p] # <<>> /\ inflight_requests'[p] = Tail(inflight_requests[p])) =>
             /\ active_peers'[p] = IF active_peers[p] <= 1 THEN 0 ELSE active_peers[p] - 1
             /\ \A h \in Range(Head(inflight_requests[p])) :
                   \/ ~unknown_hashes'[h].t /\ eth68_meta'[h] = 0
                   \/ /\ unknown_hashes'[h].retries = unknown_hashes[h].retries + 1
                      /\ h \in Range(buffered_hashes')]_vars

\* C30: the retry count of a hash that stays tracked changes only in the
\* step in which a request that holds the hash resolves, and then by
\* exactly 1; announcements, packing, requests and buffering with a fallback
\* peer leave it unchanged.
C30_RetriesOnlyOnRetryBuffer ==
    [][\A h \in TxHashes :
          ( /\ unknown_hashes[h].t /\ unknown_hashes'[h].t
            /\ unknown_hashes'[h].retries # unknown_hashes[h].retries ) =>
             /\ unknown_hashes'[h].retries = unknown_hashes[h].retries + 1
             /\ work.phase = "none" /\ work' = work
             /\ \E p \in TxPeers :
                   /\ inflight_requests[p] # <<>>
                   /\ inflight_requests'[p] = Tail(inflight_requests[p])
                   /\ h \in Range(Head(inflight_requests[p]))]_vars

\* a hash failed twice and was buffered with a fallback peer in between:
\* it counts two retries
C30_Witness ==
    \E h \in TxHashes :
       /\ unknown_hashes[h].t
       /\ unknown_hashes[h].retries = MAX_REQUEST_RETRIES_PER_TX_HASH
       /\ unknown_hashes[h].peers # <<>>
       /\ h \in Range(buffered_hashes)

\* C39: buffer_hashes(hashes, None) treats the hashes of the batch
\* independently: of the hashes of a resolved request, every one that was
\* tracked is afterwards absent from unknown_hashes and eth68_meta if its
\* retry count had reached the limit, and otherwise in buffered_hashes with
\* one retry more (or absent: delivered, or evicted from the buffer); an
\* untracked hash in the batch prevents neither.
C39_BatchHashesIndependent ==
    [][\A p \in TxPeers :
          (inflight_requests[p] # <<>> /\ inflight_requests'[p] = Tail(inflight_requests[p])) =>
             \A h \in Range(Head(inflight_requests[p])) :
                unknown_hashes[h].t =>
                   IF unknown_hashes[h].retries >= MAX_REQUEST_RETRIES_PER_TX_HASH
                   THEN ~unknown_hashes'[h].t /\ eth68_meta'[h] = 0
                   ELSE \/ ~unknown_hashes'[h].t /\ eth68_meta'[h] = 0
                        \/ /\ h \in Range(buffered_hashes')
                           /\ unknown_hashes'[h].retries = unknown_hashes[h].retries + 1]_vars

(***************************************************************************)
(* Properties of single calls of the TransactionFetcher's functions        *)
(***************************************************************************)

\* C15: a call of request_transactions_from_peer on a fetcher whose
\* active_peers holds MAX_CONCURRENT_TX_REQUESTS peers returns the whole list,
\* changes no field of the fetcher and does not call try_send, for a new peer
\* and for an active one.
C15_CapRejectsUnchanged ==
    ( /\ pres.op = "request"
      /\ Cardinality({q \in CallPeers : pst.active[q] > 0}) >= MAX_CONCURRENT_TX_REQUESTS )
    => ( /\ pres.rejected
         /\ pres.hashes = phs
         /\ pres.st = pst
         /\ ~pres.tried )

\* a peer without a request was turned down at the global limit
C15_Witness ==
    /\ pres.op = "request"
    /\ Cardinality({q \in CallPeers : pst.active[q] > 0}) = MAX_CONCURRENT_TX_REQUESTS
    /\ pst.active[pres.peer] = 0
    /\ pres.rejected

\* the sum of the announced sizes of a list of hashes
RECURSIVE SizeSum(_)
SizeSum(hs) == IF hs = <<>> THEN 0 ELSE pst.eth68[Head(hs)] + SizeSum(Tail(hs))

\* C16: pack_hashes_eth68 on hashes of known size keeps a hash of the list in
\* the outgoing set iff its size added to the sizes of the hashes of the list
\* kept before it is within MAX_FULL_TRANSACTIONS_PACKET_SIZE; the other
\* hashes of the list are the surplus, in the order of the list, and the kept
\* hashes head the outgoing set in the order of the list.
C16_Eth68GreedyPacking ==
    ( /\ pres.op = "eth68"
      /\ \A i \in 1..Len(phs) : pst.eth68[phs[i]] > 0 )
    => LET kept == SelectSeq(phs, LAMBDA h : h \in Range(pres.hashes))
       IN /\ \A i \in 1..Len(phs) :
                 (phs[i] \in Range(pres.hashes)) <=>
                 (SizeSum(SelectSeq(SubSeq(phs, 1, i - 1),
                                    LAMBDA h : h \in Range(pres.hashes)))
                    + pst.eth68[phs[i]] <= MAX_FULL_TRANSACTIONS_PACKET_SIZE)
          /\ pres.surplus = SelectSeq(phs, LAMBDA h : h \notin Range(pres.hashes))
          /\ SubSeq(pres.hashes, 1, Len(kept)) = kept

\* a hash that did not fit was passed over and a later one was kept
C16_Witness ==
    /\ pres.op = "eth68"
    /\ Len(phs) >= 3
    /\ \A i \in 1..Len(phs) : pst.eth68[phs[i]] > 0
    /\ pres.hashes = <<phs[1], phs[3]>>
    /\ pres.surplus # <<>> /\ pres.surplus[1] = phs[2]

\* C17: the outgoing set of pack_hashes_eth66 holds at most
\* GET_POOLED_TRANSACTION_SOFT_LIMIT_NUM_HASHES hashes; a list of at least
\* that many keeps its first hashes up to the limit and returns the rest as
\* surplus in order, with no hash taken from the buffer; a shorter list stays
\* whole in the outgoing set and the surplus is empty.
C17_Eth66SoftLimit ==
    pres.op = "eth66" =>
       /\ Len(pres.hashes) <= GET_POOLED_TRANSACTION_SOFT_LIMIT_NUM_HASHES
       /\ Len(phs) >= GET_POOLED_TRANSACTION_SOFT_LIMIT_NUM_HASHES =>
             /\ pres.hashes = SubSeq(phs, 1, GET_POOLED_TRANSACTION_SOFT_LIMIT_NUM_HASHES)
             /\ pres.surplus =
                  SubSeq(phs, GET_POOLED_TRANSACTION_SOFT_LIMIT_NUM_HASHES + 1, Len(phs))
             /\ pres.st = pst
       /\ Len(phs) < GET_POOLED_TRANSACTION_SOFT_LIMIT_NUM_HASHES =>
             /\ pres.surplus = <<>>
             /\ SubSeq(pres.hashes, 1, Len(phs)) = phs

\* a list longer than the limit was split while a hash the peer is a fallback
\* peer of waited in the buffer
C17_Witness ==
    /\ pres.op = "eth66"
    /\ Len(phs) > GET_POOLED_TRANSACTION_SOFT_LIMIT_NUM_HASHES
    /\ pres.surplus # <<>>
    /\ pst.buffered # <<>>
    /\ 1 \in Range(pst.unknown[pst.buffered[1]].peers)

\* C24: a call of request_transactions_from_peer whose send to the session
\* fails returns the list, removes its hashes from unknown_hashes and
\* eth68_meta, registers no request future and leaves the peer's count in
\* active_peers as it was.
C24_FailedSendLeavesPeerIdle ==
    (pres.op = "request" /\ pres.tried /\ pres.rejected) =>
       /\ pres.hashes = phs
       /\ \A h \in Range(phs) : ~pres.st.unknown[h].t /\ pres.st.eth68[h] = 0
       /\ pres.st.inflight = pst.inflight
       /\ pres.st.active[pres.peer] = pst.active[pres.peer]

\* C26: the list filter_unseen_hashes(hashes, p) leaves holds, in order, the
\* hashes of the input that were untracked or buffered; the untracked ones
\* are tracked afterwards; a hash that was tracked and not buffered is not in
\* the list and has p among its fallback peers.
C26_FilterKeepsUnseenAndBuffered ==
    pres.op = "filter" =>
       /\ pres.hashes = SelectSeq(pres.input,
                           LAMBDA h : ~pst.unknown[h].t \/ h \in Range(pst.buffered))
       /\ \A h \in Range(pres.input) :
             /\ ~pst.unknown[h].t => pres.st.unknown[h].t
             /\ (pst.unknown[h].t /\ h \notin Range(pst.buffered)) =>
                   /\ h \notin Range(pres.hashes)
                   /\ pres.peer \in Range(pres.st.unknown[h].peers)

\* an announcement of a hash in flight and a new hash: the first was dropped
\* with the peer stored as its fallback, the second is kept and tracked
C26_Witness ==
    /\ pres.op = "filter"
    /\ pres.input = <<InflightId(1), 2>>
    /\ pst.inflight[1] # <<>>
    /\ ~pst.unknown[2].t
    /\ pres.hashes = <<2>>
    /\ pres.st.unknown[2].t
    /\ pres.peer \in Range(pres.st.unknown[InflightId(1)].peers)

\* C31: when filter_unseen_hashes registers the announcing peer as fallback
\* for a hash that is tracked and not buffered, every fallback peer it
\* removes from the hash's set has an ended session.
C31_OnlyEndedSessionsRemoved ==
    pres.op = "filter" =>
       \A h \in Range(pres.input) :
          (pst.unknown[h].t /\ h \notin Range(pst.buffered)) =>
             \A fp \in Range(pst.unknown[h].peers) :
                fp \notin Range(pres.st.unknown[h].peers) => fp \notin pres.alive

\* C32: packing for peer p takes a buffered hash into the outgoing set only
\* if p is a fallback peer of the hash, and p is then no fallback peer of it
\* any more; no hash of the outgoing set is in buffered_hashes afterwards; a
\* buffered hash p is no fallback peer of stays buffered with its
\* unknown_hashes entry unchanged.
C32_FillTakesOwnFallbacks ==
    pres.op \in {"eth66", "eth68"} =>
       /\ \A h \in Range(pst.buffered) :
             /\ h \in Range(pres.hashes) =>
                   /\ pres.peer \in Range(pst.unknown[h].peers)
                   /\ pres.peer \notin Range(pres.st.unknown[h].peers)
             /\ pres.peer \notin Range(pst.unknown[h].peers) =>
                   /\ h \in Range(pres.st.buffered)
                   /\ pres.st.unknown[h] = pst.unknown[h]
       /\ \A h \in Range(pres.hashes) : h \notin Range(pres.st.buffered)
       /\ Range(pres.hashes) \subseteq Range(phs) \cup Range(pst.buffered)

\* of two buffered hashes the one the peer is a fallback peer of was taken
\* into a short list, the other one stayed buffered
C32_Witness ==
    /\ pres.op = "eth66"
    /\ Len(pst.buffered) = 2
    /\ pres.hashes = Append(phs, pst.buffered[1])
    /\ pres.st.buffered = <<pst.buffered[2]>>
    /\ pres.peer \notin Range(pst.unknown[pst.buffered[2]].peers)

\* C35: after pack_hashes_eth68, fill from the buffer included, the known
\* sizes of the hashes of the outgoing set sum to at most
\* MAX_FULL_TRANSACTIONS_PACKET_SIZE, and when the hashes kept from the list
\* fill the budget exactly nothing is taken from the buffer and the fetcher is
\* unchanged.
C35_Eth68WithinBudget ==
    pres.op = "eth68" =>
       /\ SizeSum(pres.hashes) <= MAX_FULL_TRANSACTIONS_PACKET_SIZE
       /\ SizeSum(SelectSeq(phs, LAMBDA h : h \in Range(pres.hashes)))
             = MAX_FULL_TRANSACTIONS_PACKET_SIZE =>
             /\ Range(pres.hashes) \subseteq Range(phs)
             /\ pres.st = pst

\* the list left room and a buffered hash of known size filled the budget
C35_Witness ==
    /\ pres.op = "eth68"
    /\ \E h \in Range(pres.hashes) \cap Range(pst.buffered) : pst.eth68[h] > 0
    /\ Range(pres.hashes) \cap Range(phs) # {}
    /\ SizeSum(pres.hashes) = MAX_FULL_TRANSACTIONS_PACKET_SIZE

\* C34: after filter_unseen_hashes the fallback peers of every tracked hash
\* number at most MAX_REQUEST_RETRIES_PER_TX_HASH + 1, also when the
\* announcing peer comes on top of a full set.
C34_FallbackPeersBounded ==
    pres.op = "filter" =>
       \A h \in CallHashes :
          Len(pres.st.unknown[h].peers) <= MAX_REQUEST_RETRIES_PER_TX_HASH + 1

\* a peer announced a hash in flight whose fallback set was full: it is in
\* the set, which is still full
C34_Witness ==
    /\ pres.op = "filter"
    /\ \E h \in Range(pres.input) :
          /\ Len(pst.unknown[h].peers) = MAX_REQUEST_RETRIES_PER_TX_HASH + 1
          /\ pres.peer \notin Range(pst.unknown[h].peers)
          /\ pres.peer \in Range(pres.st.unknown[h].peers)
          /\ Len(pres.st.unknown[h].peers) = MAX_REQUEST_RETRIES_PER_TX_HASH + 1

====
